---------------------------- MODULE Spec2Model ----------------------------
(***************************************************************************)
(* WinJavaLauncher (src/src/main.cpp): a self-extracting launcher.  main() *)
(* reads the target executable's name, resolves and creates a working      *)
(* directory, writes three embedded resources into it, unpacks two         *)
(* archives, launches the target, waits for it and removes the directory.  *)
(*                                                                         *)
(* Strings are sequences of one-character strings.  A path below the       *)
(* working directory is a sequence of components, each component a string  *)
(* in that sense; <<>> is the working directory itself.                    *)
(***************************************************************************)
EXTENDS Integers, Sequences, FiniteSets, TLC

VARIABLES
    pc,         \* position of main(), or of the function under study
    exeFile,    \* main.cpp:437  the target executable's name
    runDir,     \* main.cpp:440  the resolved working directory (NoDir before)
    cwd,        \* the process's current directory, which relative paths resolve against
    fsys,       \* the tree below runDir: path -> node
    zipOpen,    \* archives whose mz_zip_archive reader was never ended
    uz,         \* unzipFile's locals: the archive, the loop index, the entries
    lastErrs,   \* what the most recent step wrote to std::cerr
    reported,   \* something has been written to std::cerr in this run
    appMissing, \* FindResource failed for IDR_APP_CONTENTS
    goodInput,  \* the resources met so far are present, well formed and unpackable
    osFault,    \* an operating-system call has failed for a reason of its own
    preexisted, \* fs::exists(runDir) was true at main.cpp:390
    launch,     \* outcome of CreateProcess
    childCode,  \* the child's exit code, once it has exited
    cleanups,   \* calls of deleteFilesAndDirectories("", runDir)
    exit,       \* how the launcher process ended
    sanIn,      \* sanitizeFileName's argument
    sanOut      \* sanitizeFileName's result

vars == <<pc, exeFile, runDir, cwd, fsys, zipOpen, uz, lastErrs, reported,
          appMissing, goodInput, osFault, preexisted, launch, childCode, cleanups, exit,
          sanIn, sanOut>>

---------------------------------------------------------------------------
(* Bounds *)

\* longest name handed to sanitizeFileName / getRunDirectory on its own
MaxNameLen == 3
\* most entries of an archive in a whole run of main()
MaxEntries == 2
\* most entries of an archive when unzipFile is studied on its own
MaxUnzipEntries == 3

---------------------------------------------------------------------------
(* Characters and strings *)

\* main.cpp:61  R"([\/:*?"<>|])" searched with std::string::find: each of
\* its eleven characters counts, the brackets included.
unsafeChars == {"[", "\\", "/", ":", "*", "?", "\"", "<", ">", "|", "]"}

\* main.cpp:333  " \t\n\r\f\v"  (the vertical tab is written "VT")
Whitespace == {" ", "\t", "\n", "\r", "\f", "VT"}

\* std::isalnum in the "C" locale
Alnum ==
    {"a","b","c","d","e","f","g","h","i","j","k","l","m","n","o","p","q","r",
     "s","t","u","v","w","x","y","z",
     "A","B","C","D","E","F","G","H","I","J","K","L","M","N","O","P","Q","R",
     "S","T","U","V","W","X","Y","Z",
     "0","1","2","3","4","5","6","7","8","9"}

\* the input alphabet for names: letters, a digit, the allowed punctuation,
\* separators, a listed unsafe character, blank, and unlisted punctuation
NameChars == {"a", "1", "-", "_", "/", "\\", ":", " ", ".", "+"}

Str(n, alphabet) == UNION {[1..k -> alphabet] : k \in 0..n}

DefaultName == <<"d","e","f","a","u","l","t","_","n","a","m","e">>

IsSep(c) == c \in {"/", "\\"}

\* index of the first character of s not in set, Len(s)+1 when there is none
\* (std::string::find_first_not_of, npos mapped to Len(s)+1)
FirstNotOf(s, set) ==
    IF \E i \in 1..Len(s) : s[i] \notin set
    THEN CHOOSE i \in 1..Len(s) : s[i] \notin set /\ \A j \in 1..(i-1) : s[j] \in set
    ELSE Len(s) + 1

\* index of the last character of s not in set, 0 when there is none
\* (std::string::find_last_not_of; npos + 1 wraps to 0)
LastNotOf(s, set) ==
    IF \E i \in 1..Len(s) : s[i] \notin set
    THEN CHOOSE i \in 1..Len(s) : s[i] \notin set /\ \A j \in (i+1)..Len(s) : s[j] \in set
    ELSE 0

\* main.cpp:327-331
ReplaceUnsafe(s) == [i \in 1..Len(s) |-> IF s[i] \in unsafeChars THEN "_" ELSE s[i]]

\* main.cpp:333-334
TrimWhitespace(s) ==
    LET t == SubSeq(s, FirstNotOf(s, Whitespace), Len(s))
    IN  SubSeq(t, 1, LastNotOf(t, Whitespace))

\* main.cpp:324-340
sanitizeFileName(name) ==
    LET t == TrimWhitespace(ReplaceUnsafe(name))
    IN  IF t = <<>> THEN DefaultName ELSE t

\* index of the last separator of s, 0 when there is none
LastSep(s) ==
    IF \E i \in 1..Len(s) : IsSep(s[i])
    THEN CHOOSE i \in 1..Len(s) : IsSep(s[i]) /\ \A j \in (i+1)..Len(s) : ~IsSep(s[j])
    ELSE 0

\* fs::path::filename: what follows the last separator
Filename(s) == SubSeq(s, LastSep(s) + 1, Len(s))

\* index of the last "." of s, 0 when there is none
LastDot(s) ==
    IF \E i \in 1..Len(s) : s[i] = "."
    THEN CHOOSE i \in 1..Len(s) : s[i] = "." /\ \A j \in (i+1)..Len(s) : s[j] # "."
    ELSE 0

\* main.cpp:361  fs::path::stem: the filename without its last extension;
\* ".", ".." and a name whose only dot leads it have no extension
Stem(s) ==
    LET f == Filename(s)
    IN  IF f = <<".">> \/ f = <<".", ".">> \/ LastDot(f) <= 1 THEN f
        ELSE SubSeq(f, 1, LastDot(f) - 1)

\* s without trailing separators
StripSeps(s) == SubSeq(s, 1, LastNotOf(s, {"/", "\\"}))

\* main.cpp:375,384  fs::path::parent_path: what precedes the filename;
\* empty for a bare name, the root for a name directly below it
ParentPath(s) ==
    IF LastSep(s) = 0 THEN <<>>
    ELSE LET p == StripSeps(SubSeq(s, 1, LastSep(s)))
         IN  IF p = <<>> THEN <<"/">> ELSE p

---------------------------------------------------------------------------
(* The file tree below the working directory *)

\* main.cpp:446  runDir + "\\app.zip"
AppZip == <<"app.zip">>
\* main.cpp:447  runDir + "\\runtime.zip"
RuntimeZip == <<"runtime.zip">>

\* the names archive entries are drawn from, with their bytes: a file, a
\* directory entry (trailing separator) and a file inside that directory
Entries ==
    { [name |-> <<"a">>,           bytes |-> "hi"],
      [name |-> <<"s", "/">>,      bytes |-> ""],
      [name |-> <<"s", "/", "b">>, bytes |-> "x"] }

\* archives of at most n entries
Archives(n) == UNION {[1..k -> Entries] : k \in 0..n}

\* the target executable names the string resource IDS_EXECUTABLE may hold
ExeNames == { <<"a", ".", "e">> }

\* what a file holds
NoData       == [tag |-> "none",  entries |-> <<>>, bytes |-> ""]
ZipData(es)  == [tag |-> "zip",   entries |-> es,   bytes |-> ""]
ExeData      == [tag |-> "exe",   entries |-> <<>>, bytes |-> ""]
JunkData     == [tag |-> "junk",  entries |-> <<>>, bytes |-> ""]
BytesData(b) == [tag |-> "bytes", entries |-> <<>>, bytes |-> b]

NoNode       == [kind |-> "none", data |-> NoData]
DirNode      == [kind |-> "dir",  data |-> NoData]
FileNode(d)  == [kind |-> "file", data |-> d]

\* the components of a path string: the non-empty pieces between separators
RECURSIVE SplitPath(_)
SplitPath(s) ==
    IF s = <<>> THEN <<>>
    ELSE IF IsSep(s[1]) THEN SplitPath(Tail(s))
    ELSE LET rest == Tail(s)
             stop == IF \E i \in 1..Len(rest) : IsSep(rest[i])
                     THEN CHOOSE i \in 1..Len(rest) :
                              IsSep(rest[i]) /\ \A j \in 1..(i-1) : ~IsSep(rest[j])
                     ELSE Len(rest) + 1
         IN  <<SubSeq(s, 1, stop)>> \o SplitPath(SubSeq(rest, stop, Len(rest)))

Prefixes(p) == {SubSeq(p, 1, k) : k \in 0..Len(p)}

\* every path the program can name below the working directory
AllPaths ==
    {<<>>, <<AppZip>>, <<RuntimeZip>>}
    \cup UNION {Prefixes(SplitPath(x)) : x \in ExeNames}
    \cup UNION {Prefixes(SplitPath(e.name)) : e \in Entries}

Parent(p) == SubSeq(p, 1, Len(p) - 1)

IsDir(fs, p)  == fs[p].kind = "dir"
IsFile(fs, p) == fs[p].kind = "file"
Exists(fs, p) == fs[p].kind # "none"

NoTree    == [p \in AllPaths |-> NoNode]
EmptyTree == [NoTree EXCEPT ![<<>>] = DirNode]

\* a file can be opened for writing ("wb", std::ofstream): its directory
\* exists and the path is not itself a directory
CanOpenForWrite(fs, p) ==
    /\ p # <<>>
    /\ IsDir(fs, Parent(p))
    /\ ~IsDir(fs, p)

WriteFile(fs, p, d) == [fs EXCEPT ![p] = FileNode(d)]

\* MkdirsStatus as it would be if create_directories answered true for a
\* directory that is already there
MkdirsStatusIdempotent(fs, p) ==
    IF \E q \in Prefixes(p) : IsFile(fs, q) THEN "error" ELSE "created"

\* std::filesystem::create_directories(p): "error" (throws) when a
\* component is a file, "exists" (returns false) when p is already a
\* directory, "created" (returns true) otherwise
MkdirsStatus(fs, p) ==
    IF \E q \in Prefixes(p) : IsFile(fs, q) THEN "error"
    ELSE IF IsDir(fs, p) THEN "exists"
    ELSE "created"

Mkdirs(fs, p) == [q \in AllPaths |-> IF q \in Prefixes(p) THEN DirNode ELSE fs[q]]

\* std::filesystem::remove_all on the working directory
RemoveAll(fs) == NoTree

\* std::filesystem::remove on one file
RemoveFile(fs, p) == [fs EXCEPT ![p] = NoNode]

---------------------------------------------------------------------------
(* State of a run *)

NoDir == [parent |-> [root |-> "none", rel |-> <<>>], name |-> <<>>]

UzIdle == [zip |-> "none", state |-> "idle", i |-> 0, failAt |-> 0,
           seen |-> {}, entries |-> <<>>, errs |-> {}]

Running == [how |-> "running", code |-> 0]

\* main.cpp:75-77  printErrorInfo, once per message of a step
Report(msgs) ==
    /\ lastErrs' = msgs
    /\ reported' = (reported \/ msgs # {})

\* a process at position p that has written and met nothing yet
StartState(p, name, rd, dir, tree) ==
    /\ pc = p
    /\ exeFile = name
    /\ runDir = rd
    /\ cwd = dir
    /\ fsys = tree
    /\ zipOpen = {}
    /\ uz = UzIdle
    /\ lastErrs = {}
    /\ reported = FALSE
    /\ appMissing = FALSE
    /\ goodInput = TRUE
    /\ osFault = FALSE
    /\ preexisted = FALSE
    /\ launch = "none"
    /\ childCode = <<>>
    /\ cleanups = 0
    /\ exit = Running
    /\ sanIn = <<>>
    /\ sanOut = <<>>

\* the launcher is started from the directory that holds it
Init == StartState("getExecutable", <<>>, NoDir, "launcherDir", NoTree)

---------------------------------------------------------------------------
(* getExecutable, main.cpp:282-291 *)

\* When LoadStringA fails the buffer is returned uninitialised: any name,
\* the empty one included, may come back.
GetExecutable ==
    /\ pc = "getExecutable"
    /\ \E ok \in BOOLEAN :
         \E name \in (IF ok THEN ExeNames ELSE ExeNames \cup {<<>>}) :
            /\ exeFile' = name
            /\ Report(IF ok THEN {} ELSE {"Failed to load executable name resource!"})
            /\ goodInput' = ok
    /\ pc' = "getRunDirectory"
    /\ UNCHANGED <<runDir, cwd, fsys, zipOpen, uz, appMissing, osFault, preexisted,
                   launch, childCode, cleanups, exit, sanIn, sanOut>>

---------------------------------------------------------------------------
(* getRunDirectory, main.cpp:355-403 *)

\* main.cpp:303-312  GetTempPath's directory
TempParent == [root |-> "temp", rel |-> <<>>]

\* main.cpp:375,384  exePath.parent_path(), where exePath is the name that
\* getExecutable returned: a relative path resolves against the current
\* directory, a rooted one against the root of the current drive
ExeParent(name, dir) ==
    LET rel == ParentPath(name)
    IN  IF rel # <<>> /\ IsSep(rel[1])
        THEN [root |-> "driveRoot", rel |-> SplitPath(rel)]
        ELSE [root |-> dir, rel |-> SplitPath(rel)]

\* main.cpp:366-385  the parent by policy
ChooseParent(tempOk, name, dir) ==
    IF tempOk THEN TempParent ELSE ExeParent(name, dir)

\* main.cpp:358-387
ResolveRunDir(tempOk, name, dir) ==
    [parent |-> ChooseParent(tempOk, name, dir),
     name   |-> sanitizeFileName(Stem(name))]

\* what an earlier run that was killed may have left in the directory:
\* nothing yet, or (killed while it waited for the child) the executable and
\* the unpacked tree of the archives a and s/, s/b
Leftovers ==
    {EmptyTree,
     [EmptyTree EXCEPT ![<<<<"a">>>>] = FileNode(BytesData("hi")),
                       ![<<<<"s">>>>] = DirNode,
                       ![<<<<"s">>, <<"b">>>>] = FileNode(BytesData("x")),
                       ![<<<<"a", ".", "e">>>>] = FileNode(ExeData)]}

\* main.cpp:389-402: the process's fate when the directory neither exists
\* nor can be created: the exception thrown at line 397 leaves main(), which
\* has no handler, so std::terminate ends the process (abort, status 3)
CreationFailureExit == [how |-> "terminated", code |-> 3]

GetRunDirectory ==
    /\ pc = "getRunDirectory"
    /\ \E tempOk \in BOOLEAN, there \in {"absent", "present"}, createOk \in BOOLEAN :
         LET dir  == ResolveRunDir(tempOk, exeFile, cwd)
             tmsg == IF tempOk THEN {}
                     ELSE {"Failed to get temporary directory.",
                           "Exception caught while acquiring temp directory"}
         IN  IF there = "present"
             THEN \E left \in Leftovers :
                    /\ createOk
                    /\ fsys' = left
                    /\ preexisted' = TRUE
                    /\ runDir' = dir
                    /\ pc' = "extractApp"
                    /\ exit' = exit
                    /\ osFault' = (osFault \/ ~tempOk)
                    /\ Report(tmsg)
             ELSE IF createOk
             THEN /\ fsys' = EmptyTree
                  /\ preexisted' = FALSE
                  /\ runDir' = dir
                  /\ pc' = "extractApp"
                  /\ exit' = exit
                  /\ osFault' = (osFault \/ ~tempOk)
                  /\ Report(tmsg)
             ELSE /\ fsys' = fsys
                  /\ preexisted' = FALSE
                  /\ runDir' = runDir
                  /\ pc' = "aborted"
                  /\ exit' = CreationFailureExit
                  /\ osFault' = TRUE
                  /\ Report(tmsg \cup {"Exception during directory creation"})
    /\ UNCHANGED <<exeFile, cwd, zipOpen, uz, appMissing, goodInput, launch, childCode,
                   cleanups, sanIn, sanOut>>

---------------------------------------------------------------------------
(* extractResource, main.cpp:126-195 *)

\* what the three binary resources may hold: an archive of some entries or
\* bytes that are no archive; an executable image or bytes that are none
ArchiveResource == {ZipData(es) : es \in Archives(MaxEntries)} \cup {JunkData}
ExecutableResource == {ExeData, JunkData}

\* main.cpp:131-165  the returns before anything is written, with the
\* message each prints
ResourceFailures ==
    [module   |-> "Failed to get module handle!",
     notfound |-> "Resource not found!",
     size0    |-> "Resource size is 0!",
     load     |-> "Failed to load resource!",
     lock     |-> "Failed to lock resource!"]

\* Two archives unpacked one after the other into an empty directory meet no
\* failing entry: every file's directory was made by an earlier entry, and
\* no directory entry names a directory made before it.
RECURSIVE Unpackable(_, _)
Unpackable(es, made) ==
    IF es = <<>> THEN TRUE
    ELSE LET n == es[1].name
             p == SplitPath(n)
         IN  IF IsSep(n[Len(n)])
             THEN p \notin made /\ Unpackable(Tail(es), made \cup Prefixes(p))
             ELSE Parent(p) \in made /\ Unpackable(Tail(es), made)

\* AfterExtractResource as it would be if a failed extraction ended the run
AfterExtractResourceStop(next, outcome) ==
    IF outcome = "ok" THEN next ELSE "aborted"

\* main.cpp:446-448  extractResource returns nothing: whatever happened in
\* it, main() goes on to its next statement
AfterExtractResource(next, outcome) == next

ExtractResource(here, next, id, path, datas) ==
    /\ pc = here
    /\ \E outcome \in DOMAIN ResourceFailures \cup {"open", "write", "ok"} :
       /\ pc' = AfterExtractResource(next, outcome)
       /\ IF outcome \in DOMAIN ResourceFailures
         THEN /\ Report({ResourceFailures[outcome]})
              /\ fsys' = fsys
              /\ goodInput' = (goodInput /\ outcome \notin {"notfound", "size0"})
              /\ osFault' = (osFault \/ outcome \in {"module", "load", "lock"})
              /\ appMissing' = (appMissing \/ (id = "app" /\ outcome = "notfound"))
         ELSE /\ appMissing' = appMissing
              /\ IF outcome = "open" \/ ~CanOpenForWrite(fsys, path)
                 THEN \* main.cpp:178-181
                      /\ outcome = "open"
                      /\ Report({"Error extracting resource: Failed to open output file for writing."})
                      /\ fsys' = fsys
                      /\ goodInput' = goodInput
                      /\ osFault' = (osFault \/ CanOpenForWrite(fsys, path))
                 ELSE IF outcome = "write"
                 THEN \* main.cpp:183-186: the file is left with part of the bytes
                      /\ Report({"Error extracting resource: Failed to write resource to file!"})
                      /\ fsys' = WriteFile(fsys, path, JunkData)
                      /\ goodInput' = goodInput
                      /\ osFault' = TRUE
                 ELSE \E d \in datas :
                      /\ Report({})
                      /\ fsys' = WriteFile(fsys, path, d)
                      /\ osFault' = osFault
                      /\ goodInput' =
                           (/\ goodInput
                            /\ d.tag \in {"zip", "exe"}
                            /\ d.tag = "zip" => d.entries # <<>>
                            /\ id = "runtime" =>
                                 /\ fsys[<<AppZip>>].data.tag = "zip"
                                 /\ Unpackable(fsys[<<AppZip>>].data.entries \o d.entries,
                                               {<<>>})
                            /\ id = "exe" =>
                                 \A z \in {<<AppZip>>, <<RuntimeZip>>} :
                                    \A k \in 1..Len(fsys[z].data.entries) :
                                       path \notin Prefixes(SplitPath(fsys[z].data.entries[k].name)))
    /\ UNCHANGED <<exeFile, runDir, cwd, zipOpen, uz, preexisted, launch,
                   childCode, cleanups, exit, sanIn, sanOut>>

\* main.cpp:446
ExtractApp == ExtractResource("extractApp", "extractRuntime", "app", <<AppZip>>, ArchiveResource)
\* main.cpp:447
ExtractRuntime == ExtractResource("extractRuntime", "extractExe", "runtime", <<RuntimeZip>>, ArchiveResource)
\* main.cpp:448
ExtractExe == ExtractResource("extractExe", "unzipApp", "exe", SplitPath(exeFile), ExecutableResource)

---------------------------------------------------------------------------
(* unzipFile, main.cpp:206-254 *)

ZipPath(z) == IF z = "app" THEN <<AppZip>> ELSE <<RuntimeZip>>

\* main.cpp:229  the entry names a directory
IsDirEntry(name) == IsSep(name[Len(name)])

\* EntryFailure as it would be with the try block inside the loop: the
\* failure is printed and the loop goes on to the next entry
EntryFailureContinue(u, msg) ==
    [u EXCEPT !.i = u.i + 1, !.failAt = IF u.failAt = 0 THEN u.i ELSE u.failAt,
              !.seen = u.seen \cup {u.i}, !.errs = u.errs \cup {msg}]

\* main.cpp:249-253  an exception leaves the loop: the handlers only print,
\* so the reader is not ended and the archive is not removed
EntryFailure(u, msg) ==
    [u EXCEPT !.state = "failed", !.failAt = u.i, !.seen = u.seen \cup {u.i},
              !.errs = u.errs \cup {msg}]

\* main.cpp:221  ++i after an entry that raised nothing
EntryDone(u) == [u EXCEPT !.i = u.i + 1, !.seen = u.seen \cup {u.i}]

\* main.cpp:211-219  mz_zip_reader_init_file and the entry count
UnzipOpen(here, next, z) ==
    /\ pc = here
    /\ uz.zip # z
    /\ \E ok \in BOOLEAN :
         LET node == fsys[ZipPath(z)]
             u    == [UzIdle EXCEPT !.zip = z]
         IN  IF ~ok \/ node.kind # "file" \/ node.data.tag # "zip"
             THEN \* line 212: the reader was not initialised, nothing stays open
                  /\ ~ok
                  /\ uz' = [u EXCEPT !.state = "failed",
                                     !.errs = {"Error during unzip operation: Error opening zip file"}]
                  /\ zipOpen' = zipOpen
                  /\ osFault' = (osFault \/ (node.kind = "file" /\ node.data.tag = "zip"))
                  /\ pc' = next
             ELSE IF node.data.entries = <<>>
             THEN \* line 218
                  /\ uz' = [u EXCEPT !.state = "failed",
                                     !.errs = {"Error during unzip operation: No files found in the zip archive"}]
                  /\ zipOpen' = zipOpen \cup {z}
                  /\ osFault' = osFault
                  /\ pc' = next
             ELSE /\ uz' = [u EXCEPT !.state = "loop", !.i = 1, !.entries = node.data.entries]
                  /\ zipOpen' = zipOpen \cup {z}
                  /\ osFault' = osFault
                  /\ pc' = here
    /\ Report(uz'.errs)
    /\ UNCHANGED <<exeFile, runDir, cwd, fsys, appMissing, goodInput, preexisted, launch,
                   childCode, cleanups, exit, sanIn, sanOut>>

\* main.cpp:221-240  one turn of the loop
UnzipEntry(here, next, z) ==
    /\ pc = here
    /\ uz.zip = z
    /\ uz.state = "loop"
    /\ uz.i <= Len(uz.entries)
    /\ LET e == uz.entries[uz.i]
           p == SplitPath(e.name)
       IN  \E fault \in {"none", "name", "io"} :
             /\ IF fault = "name"
                THEN \* line 225
                     /\ osFault' = TRUE
                     /\ uz' = EntryFailure(uz, "Error during unzip operation: Error getting filename from zip")
                     /\ fsys' = fsys
                ELSE IF IsDirEntry(e.name)
                THEN IF fault = "io" \/ MkdirsStatus(fsys, p) = "error"
                     THEN \* create_directories throws, caught at line 249
                          /\ fault = "io"
                          /\ osFault' = (osFault \/ MkdirsStatus(fsys, p) # "error")
                          /\ uz' = EntryFailure(uz, "File system error")
                          /\ fsys' = fsys
                     ELSE IF MkdirsStatus(fsys, p) = "exists"
                     THEN \* line 230-231: false is taken for a failure
                          /\ osFault' = osFault
                          /\ uz' = EntryFailure(uz, "Error during unzip operation: Error creating directory")
                          /\ fsys' = fsys
                     ELSE /\ osFault' = osFault
                          /\ uz' = EntryDone(uz)
                          /\ fsys' = Mkdirs(fsys, p)
                ELSE IF fault = "io" \/ ~CanOpenForWrite(fsys, p)
                     THEN \* line 235-236
                          /\ fault = "io"
                          /\ osFault' = (osFault \/ CanOpenForWrite(fsys, p))
                          /\ uz' = EntryFailure(uz, "Error during unzip operation: Error extracting file")
                          /\ fsys' = fsys
                     ELSE /\ osFault' = osFault
                          /\ uz' = EntryDone(uz)
                          /\ fsys' = WriteFile(fsys, p, BytesData(e.bytes))
    /\ pc' = IF uz'.state = "loop" THEN here ELSE next
    /\ Report(uz'.errs \ uz.errs)
    /\ UNCHANGED <<exeFile, runDir, cwd, zipOpen, appMissing, goodInput, preexisted, launch,
                   childCode, cleanups, exit, sanIn, sanOut>>

\* main.cpp:242-248  after the last entry: end the reader, remove the archive
UnzipEnd(here, next, z) ==
    /\ pc = here
    /\ uz.zip = z
    /\ uz.state = "loop"
    /\ uz.i > Len(uz.entries)
    /\ zipOpen' = zipOpen \ {z}
    /\ \E ok \in BOOLEAN :
         IF ~Exists(fsys, ZipPath(z))
         THEN /\ ok
              /\ fsys' = fsys
              /\ uz' = [uz EXCEPT !.state = "ok"]
              /\ osFault' = osFault
         ELSE IF ok
         THEN /\ fsys' = RemoveFile(fsys, ZipPath(z))
              /\ uz' = [uz EXCEPT !.state = "ok"]
              /\ osFault' = osFault
         ELSE \* fs::remove throws, caught at line 249
              /\ fsys' = fsys
              /\ uz' = [uz EXCEPT !.state = "ok",
                                  !.errs = {"File system error: cannot remove the archive"}]
              /\ osFault' = TRUE
    /\ pc' = next
    /\ Report(uz'.errs)
    /\ UNCHANGED <<exeFile, runDir, cwd, appMissing, goodInput, preexisted, launch,
                   childCode, cleanups, exit, sanIn, sanOut>>

\* main.cpp:451
UnzipApp ==
    \/ UnzipOpen("unzipApp", "unzipRuntime", "app")
    \/ UnzipEntry("unzipApp", "unzipRuntime", "app")
    \/ UnzipEnd("unzipApp", "unzipRuntime", "app")

\* main.cpp:452
UnzipRuntime ==
    \/ UnzipOpen("unzipRuntime", "launch", "runtime")
    \/ UnzipEntry("unzipRuntime", "launch", "runtime")
    \/ UnzipEnd("unzipRuntime", "launch", "runtime")

---------------------------------------------------------------------------
(* launch, wait and cleanup, main.cpp:454-492 *)

\* main.cpp:459  runDir + "\\" + exeFile
ExePath == SplitPath(exeFile)

\* CreateProcess needs an executable image at the path
Launchable(fs, p) == IsFile(fs, p) /\ fs[p].data.tag = "exe"

\* main.cpp:461-480
Launch ==
    /\ pc = "launch"
    /\ \E ok \in BOOLEAN :
         IF ok /\ Launchable(fsys, ExePath)
         THEN /\ launch' = "ok"
              /\ pc' = "waiting"
              /\ osFault' = osFault
              /\ Report({})
         ELSE /\ ~ok
              /\ launch' = "failed"
              /\ pc' = "cleanup"
              /\ osFault' = (osFault \/ Launchable(fsys, ExePath))
              /\ Report({"Failed to launch"})
    /\ uz' = UzIdle
    /\ UNCHANGED <<exeFile, runDir, cwd, fsys, zipOpen, appMissing, goodInput, preexisted,
                   childCode, cleanups, exit, sanIn, sanOut>>

\* main.cpp:473  WaitForSingleObject returns once the child has exited
ChildExit ==
    /\ pc = "waiting"
    /\ \E code \in {0, 1} : childCode' = <<code>>
    /\ pc' = "cleanup"
    /\ Report({})
    /\ UNCHANGED <<exeFile, runDir, cwd, fsys, zipOpen, uz, appMissing, goodInput,
                   osFault, preexisted, launch, cleanups, exit, sanIn, sanOut>>

\* ReturnStatus as it would be if main() handed on the child's exit code
ReturnStatusOfChild(child) ==
    [how |-> "returned", code |-> IF child = <<>> THEN 0 ELSE child[1]]

\* main.cpp:492  the status main() returns; the child's code is not consulted
ReturnStatus(child) == [how |-> "returned", code |-> 0]

\* main.cpp:88-113 as called at line 486, with an empty zipPath.  A file
\* this process still holds open cannot be deleted, so remove_all throws
\* when a reader was left open; it may also fail for reasons of its own.
Cleanup ==
    /\ pc = "cleanup"
    /\ cleanups' = cleanups + 1
    /\ \E ok \in BOOLEAN :
         IF ~Exists(fsys, <<>>)
         THEN /\ ok
              /\ fsys' = fsys
              /\ osFault' = osFault
              /\ Report({})
         ELSE IF ok /\ zipOpen = {}
         THEN /\ fsys' = RemoveAll(fsys)
              /\ osFault' = osFault
              /\ Report({})
         ELSE /\ ~ok
              /\ fsys' = fsys
              /\ osFault' = (osFault \/ zipOpen = {})
              /\ Report({"Error deleting files and/or directories"})
    /\ pc' = "done"
    /\ exit' = ReturnStatus(childCode)
    /\ UNCHANGED <<exeFile, runDir, cwd, zipOpen, uz, appMissing, goodInput,
                   preexisted, launch, childCode, sanIn, sanOut>>

\* an external termination signal ends the launcher wherever it is: its
\* locals and open readers go with the process, the files stay behind
Kill ==
    /\ pc \notin {"done", "aborted", "killed"}
    /\ pc' = "killed"
    /\ exit' = [how |-> "killed", code |-> 1]
    /\ exeFile' = <<>>
    /\ runDir' = NoDir
    /\ zipOpen' = {}
    /\ uz' = UzIdle
    /\ lastErrs' = {}
    /\ UNCHANGED <<cwd, fsys, reported, appMissing, goodInput, osFault, preexisted, launch,
                   childCode, cleanups, sanIn, sanOut>>

Next ==
    \/ GetExecutable
    \/ GetRunDirectory
    \/ ExtractApp
    \/ ExtractRuntime
    \/ ExtractExe
    \/ UnzipApp
    \/ UnzipRuntime
    \/ Launch
    \/ ChildExit
    \/ Cleanup
    \/ Kill

Spec == Init /\ [][Next]_vars

---------------------------------------------------------------------------
(* sanitizeFileName on its own, main.cpp:324-340 *)

InitSanitize ==
    /\ pc = "sanitize"
    /\ exeFile = <<>>
    /\ runDir = NoDir
    /\ cwd = "launcherDir"
    /\ fsys = NoTree
    /\ zipOpen = {}
    /\ uz = UzIdle
    /\ lastErrs = {}
    /\ reported = FALSE
    /\ appMissing = FALSE
    /\ goodInput = TRUE
    /\ osFault = FALSE
    /\ preexisted = FALSE
    /\ launch = "none"
    /\ childCode = <<>>
    /\ cleanups = 0
    /\ exit = Running
    /\ sanOut = <<>>
    /\ sanIn \in Str(MaxNameLen, NameChars)

Sanitize ==
    /\ pc = "sanitize"
    /\ sanOut' = sanitizeFileName(sanIn)
    /\ pc' = "sanitized"
    /\ UNCHANGED <<exeFile, runDir, cwd, fsys, zipOpen, uz, lastErrs, reported,
                   appMissing, goodInput, osFault, preexisted, launch, childCode,
                   cleanups, exit, sanIn>>

SpecSanitize == InitSanitize /\ [][Sanitize]_vars

---------------------------------------------------------------------------
(* getRunDirectory on its own, main.cpp:355-403: any executable name, the *)
(* launcher started from its own directory or from another                *)

\* names without ":", which fs::path would read as a drive
ExeNameChars == NameChars \ {":"}

InitRunDirectory ==
    \E name \in Str(MaxNameLen, ExeNameChars), dir \in {"launcherDir", "otherDir"} :
        StartState("getRunDirectory", name, NoDir, dir, NoTree)

SpecRunDirectory == InitRunDirectory /\ [][GetRunDirectory]_vars

---------------------------------------------------------------------------
(* unzipFile on its own, main.cpp:206-254: any archive of up to           *)
(* MaxUnzipEntries entries at runDir\app.zip, or bytes that are no        *)
(* archive, or no file; the destination fresh or already holding s        *)

Destinations ==
    Leftovers \cup {[EmptyTree EXCEPT ![<<<<"s">>>>] = DirNode]}

InitUnzip ==
    \E dest \in Destinations :
      \E node \in {FileNode(ZipData(es)) : es \in Archives(MaxUnzipEntries)}
                  \cup {FileNode(JunkData), NoNode} :
        StartState("unzipApp", <<"a", ".", "e">>,
                   ResolveRunDir(TRUE, <<"a", ".", "e">>, "launcherDir"),
                   "launcherDir", [dest EXCEPT ![<<AppZip>>] = node])

SpecUnzip == InitUnzip /\ [][UnzipApp]_vars

---------------------------------------------------------------------------
(* Properties *)

UnzipPc(z) ==
    IF z = "app" THEN "unzipApp" ELSE IF z = "runtime" THEN "unzipRuntime" ELSE "none"

Returned(u) == u.state \in {"ok", "failed"}

DeleteFailedMsg == "File system error: cannot remove the archive"

\* C1: the working directory exists before any resource or archive
\* extraction writes into it, and it is removed exactly once, after the
\* launch step has ended (the child has exited, or the launch failed).
\* Stated for the runs in which no operating-system call failed for a
\* reason of its own, the reading most favourable to the claim.
C1_DirectoryCreatedFirstRemovedOnce ==
    [][ /\ (pc \in {"extractApp", "extractRuntime", "extractExe",
                    "unzipApp", "unzipRuntime"} /\ fsys' # fsys)
              => (runDir # NoDir /\ IsDir(fsys, <<>>))
        /\ (cleanups' # cleanups)
              => (cleanups = 0 /\ (launch = "failed" \/ childCode # <<>>))
        /\ (pc' = "done" /\ ~osFault')
              => (cleanups' = 1 /\ ~Exists(fsys', <<>>)) ]_vars

\* C2: when the working directory cannot be created, the failure is
\* reported, nothing is extracted or launched, and the launcher exits with
\* status 1.
C2_CreationFailureExitsWithOne ==
    pc = "aborted" =>
        /\ "Exception during directory creation" \in lastErrs
        /\ fsys = NoTree
        /\ launch = "none"
        /\ exit = [how |-> "returned", code |-> 1]

\* C3: once unzipFile has returned, the archive file no longer exists,
\* unless its deletion failed and was reported; this on success and on
\* an aborted extraction alike.
C3_ArchiveGoneAfterUnzip ==
    Returned(uz) =>
        \/ ~Exists(fsys, ZipPath(uz.zip))
        \/ DeleteFailedMsg \in uz.errs

\* C4: the name sanitizeFileName returns holds only alphanumeric
\* characters, '-' and '_', and an empty input gives "default_name".
C4_SanitizedNameIsClean ==
    pc = "sanitized" =>
        /\ \A i \in 1..Len(sanOut) : sanOut[i] \in Alnum \cup {"-", "_"}
        /\ sanIn = <<>> => sanOut = DefaultName

\* C5: extracting a valid archive (no operating-system fault) leaves a
\* directory for every entry whose name ends in a separator, a file with the
\* entry's bytes for every other entry, and no archive file.
C5_EveryEntryExtracted ==
    (Returned(uz) /\ uz.entries # <<>> /\ ~osFault) =>
        /\ \A k \in 1..Len(uz.entries) :
              LET e == uz.entries[k]
                  p == SplitPath(e.name)
              IN  IF IsDirEntry(e.name) THEN IsDir(fsys, p)
                  ELSE fsys[p] = FileNode(BytesData(e.bytes))
        /\ ~Exists(fsys, ZipPath(uz.zip))

\* the step on which unzipFile finds the archive at its path to hold no entry
EmptyArchiveStep ==
    /\ pc \in {"unzipApp", "unzipRuntime"}
    /\ UnzipPc(uz.zip) # pc
    /\ UnzipPc(uz'.zip) = pc
    /\ LET node == fsys[IF pc = "unzipApp" THEN <<AppZip>> ELSE <<RuntimeZip>>]
       IN  node.kind = "file" /\ node.data.tag = "zip" /\ node.data.entries = <<>>

\* C6: archive extraction aborts at the first failure: the step on which an
\* entry fails reports an error and is unzipFile's last, so no later entry
\* is processed; an archive without entries is a reported failure that
\* changes nothing in the destination.
C6_ExtractionAbortsAtFirstFailure ==
    /\ [](uz.failAt # 0 =>
            /\ pc # UnzipPc(uz.zip)
            /\ uz.state = "failed"
            /\ uz.seen = 1..uz.failAt
            /\ reported)
    /\ [][ /\ (uz.failAt = 0 /\ uz'.failAt # 0)
                 => (lastErrs' # {} /\ pc' # pc /\ uz'.failAt = uz.i)
           /\ EmptyArchiveStep
                 => (lastErrs' # {} /\ pc' # pc /\ uz'.state = "failed"
                     /\ uz'.seen = {} /\ fsys' = fsys) ]_vars

\* C6, witness: the second of three entries has failed, after the first
\* was extracted
C6_Witness ==
    /\ uz.state = "failed"
    /\ uz.failAt = 2
    /\ Len(uz.entries) = 3
    /\ pc = "unzipRuntime"

\* C7 as written: with the application archive's resource missing the run
\* reaches the launch step, which fails; an error is reported and the
\* final cleanup is performed.
C7_MissingArchiveLaunchFails ==
    (pc = "done" /\ appMissing) =>
        (launch = "failed" /\ reported /\ cleanups = 1)

\* C7, amended: a missing application-archive resource is reported and
\* does not end the run: a run that completes has gone through the launch
\* step, which succeeded only with an executable image at the target's
\* path, and has called the final cleanup once.
C7_MissingArchiveRunContinues ==
    appMissing =>
        /\ reported
        /\ pc # "aborted"
        /\ pc \in {"waiting", "cleanup", "done"} => launch \in {"ok", "failed"}
        /\ (launch = "ok" /\ pc \in {"waiting", "cleanup"}) => Launchable(fsys, ExePath)
        /\ pc = "done" => cleanups = 1

\* C7, witness: the archive resource was missing, the launch succeeded all
\* the same and the run completed
C7_Witness ==
    /\ pc = "done"
    /\ appMissing
    /\ launch = "ok"
    /\ childCode = <<0>>
    /\ cleanups = 1

C9_ParentIsTempOrLauncherDir ==
    pc = "extractApp" =>
        /\ runDir.name = sanitizeFileName(Stem(exeFile))
        /\ runDir.parent =
             IF "Failed to get temporary directory." \in lastErrs
             THEN [root |-> "launcherDir", rel |-> <<>>]
             ELSE TempParent

\* A run that starts without the directory, with good resources and no
\* operating-system fault, reports nothing and ends with the directory
\* removed.
FreshRunIsClean ==
    (pc = "done" /\ ~preexisted /\ goodInput /\ ~osFault) =>
        (~reported /\ ~Exists(fsys, <<>>) /\ launch = "ok")

\* C10: a run that finds the directory left by an earlier run behaves as
\* one that started without it (FreshRunIsClean): with good resources and
\* no operating-system fault it reports nothing and ends with the
\* directory removed.
C10_LeftoverRunIsClean ==
    (pc = "done" /\ preexisted /\ goodInput /\ ~osFault) =>
        (~reported /\ ~Exists(fsys, <<>>) /\ launch = "ok")

\* the step on which unzipFile meets a directory entry whose directory is
\* already in the destination
ExistingDirectoryEntryStep ==
    /\ pc \in {"unzipApp", "unzipRuntime"}
    /\ pc = UnzipPc(uz.zip)
    /\ uz.state = "loop"
    /\ uz.i <= Len(uz.entries)
    /\ IsDirEntry(uz.entries[uz.i].name)
    /\ IsDir(fsys, SplitPath(uz.entries[uz.i].name))
    /\ pc' # "killed"

EntryFailureMsgs ==
    { "Error during unzip operation: Error creating directory",
      "Error during unzip operation: Error getting filename from zip",
      "File system error" }

===========================================================================
